---- MODULE Spec2Model ----
(***************************************************************************)
(* A model of src/particles.js: the SoundManager (ambient piano) and the   *)
(* ParticleSimulation (particle physics, shape morphing, frame loop).      *)
(*                                                                         *)
(* Units.  Audio-clock times (ctx.currentTime, lastNoteTime, noteDensity)  *)
(* and setTimeout delays are in milliseconds.  Lengths and velocities are  *)
(* fixed-point numbers in thousandths of a world unit (Scale).  The field  *)
(* rotation is in thousandths of a radian.                                 *)
(***************************************************************************)
EXTENDS Integers, Sequences, FiniteSets, TLC

VARIABLES
    \* ---- SoundManager fields (particles.js 11-36) ----
    ctxState,        \* this.ctx: "none" (null) or the AudioContext's state
    masterGain,      \* target of masterGain.gain in hundredths, NoGain when null
    isInitialized,
    currentScale,    \* "default" or "inverted"
    smInverted,      \* SoundManager.isInverted
    lastNoteTime,
    activeVoices,
    isMuted,
    \* ---- the browser side of the audio subsystem ----
    audioAvailable,  \* window.AudioContext || window.webkitAudioContext exists
    currentTime,     \* ctx.currentTime, the audio clock
    resumeRequested, \* ctx.resume() was called and has not yet taken effect
    timers,          \* pending setTimeout cleanups: remaining delays, ascending
    \* ---- history of the sound manager ----
    notesStarted,    \* number of playNote calls that started a voice
    cleanupsFired,   \* number of cleanup callbacks that have run
    lastStart,       \* audio-clock time at which the latest voice was started
    \* ---- ParticleSimulation fields (particles.js 175-233) ----
    positions,          \* geometry.attributes.position, one vector per particle
    originalPositions,  \* geometry.attributes.originalPosition
    velocities,         \* geometry.attributes.velocity
    currentShape,
    isTransforming,
    isFrozen,
    isInverted,
    isMouseDown,
    hasInteracted,
    config,             \* this.config: the fields the claims are about
    storedShapes,       \* this.shapes: the three generated point clouds
    mouseWorld,         \* the interaction point on the plane z = 0
    rotationY,          \* particles.rotation.y
    matrixWorldY,       \* the rotation held by particles.matrixWorld
    time,               \* clock.getElapsedTime() at the latest frame, ms
    \* ---- history of the simulation ----
    frames,             \* number of animate() calls
    toggles,            \* number of toggleShape() calls
    initCalls,          \* number of soundManager.init() calls made by mousedown
    frameLog,           \* the steps of the latest frame, in execution order
    rotSeen,            \* the rotation the latest integration transformed by
    rotAtIntegrate,     \* particles.rotation.y when the latest integration ran
    frameEnergy,        \* totalInteractionForce of the latest frame
    frameNotified,      \* triggerInteractionSound calls of the latest frame
    frameNotes,         \* voices started by the latest frame
    framePush,          \* per particle: velocity change the mouse gave it
    frameCounted,       \* per particle: force added to totalInteractionForce
    frameNaN,           \* the latest frame divided by a zero distance
    \* ---- history shared by all handlers ----
    lastOp,          \* the handler or method that ran last ("note": a call of
                     \* triggerInteractionSound that started a voice; "env":
                     \* a step of the browser)
    threw            \* that operation ended with an exception

soundVars == <<ctxState, masterGain, isInitialized, currentScale, smInverted,
               lastNoteTime, activeVoices, isMuted, audioAvailable, currentTime,
               resumeRequested, timers, notesStarted, cleanupsFired, lastStart>>

fieldVars == <<positions, originalPositions, velocities>>

simVars == <<fieldVars, currentShape, isTransforming, isFrozen, isInverted,
             isMouseDown, hasInteracted, config, storedShapes, mouseWorld,
             rotationY, matrixWorldY, time, frames, toggles, initCalls, frameLog,
             rotSeen, rotAtIntegrate, frameEnergy, frameNotified, frameNotes,
             framePush, frameCounted, frameNaN>>

vars == <<soundVars, simVars, lastOp, threw>>

(***************************************************************************)
(* Program constants of the SoundManager.                                  *)
(***************************************************************************)
noteDensity == 150          \* 0.15 s
maxVoices == 8
NoGain == 0 - 1             \* masterGain === null
InitGain == 80              \* masterGain.gain.value = 0.8
UnmutedGain == 40           \* setTargetAtTime(0.4, ...)
ReleaseNormal == 2500       \* releaseTime, not inverted (2.5 s)
ReleaseInverted == 4000     \* releaseTime, inverted (4.0 s)
StopTail == 500             \* the + 0.5 s of osc.stop and of the timeout

(***************************************************************************)
(* Bounds of the model.                                                    *)
(***************************************************************************)
MaxTime == 1350             \* the audio clock is followed up to this time
MaxPageTime == 300          \* ... and up to this time on the page
ClockSteps == {150}        \* amounts by which the audio clock advances
TimerSteps == {1500}        \* amounts of event-loop time the timers see pass

Max0(x) == IF x < 0 THEN 0 ELSE x

\* Insert a remaining delay into the ascending timer list.
RECURSIVE InsertTimer(_, _)
InsertTimer(ts, d) ==
    IF ts = <<>> THEN <<d>>
    ELSE IF d <= Head(ts) THEN <<d>> \o ts
    ELSE <<Head(ts)>> \o InsertTimer(Tail(ts), d)

\* setTimeout(cb, (releaseTime + 0.5) * 1000)
CleanupDelay(inverted) ==
    (IF inverted THEN ReleaseInverted ELSE ReleaseNormal) + StopTail

(***************************************************************************)
(* SoundManager                                                            *)
(***************************************************************************)

\* Mutant: the initialization flag is not consulted.
SoundBlockedByMuteOnly(initialized, muted) == muted

\* line 96: if (!this.isInitialized || this.isMuted) return;
SoundBlocked(initialized, muted) == ~initialized \/ muted

\* Mutant: the cap is compared with > instead of >=.
VoiceCapOffByOne(voices) == voices > maxVoices

\* line 103: if (this.activeVoices >= this.maxVoices) return;
VoiceCapReached(voices) == voices >= maxVoices

\* Mutant: the elapsed time is compared with the density in the wrong unit.
RateLimitedWrongUnit(now, last) == now - last < noteDensity \div 1000

\* line 108: if (now - this.lastNoteTime < this.noteDensity) return;
RateLimited(now, last) == now - last < noteDensity

\* lines 99-101: ctx.resume() is requested when the context is suspended.
ResumeAfterTrigger(state, requested) == requested \/ state = "suspended"

\* Mutant: the cleanup releases the nodes but forgets the voice count.
VoicesAfterCleanupKept(voices) == voices

\* lines 163-166: the cleanup callback's effect on the voice count.
VoicesAfterCleanup(voices) == voices - 1

\* Mutant: the voice is counted but its cleanup is never scheduled.
PlayNoteWithoutCleanup ==
    IF ctxState = "none"
    THEN UNCHANGED <<activeVoices, timers, notesStarted, lastStart>>
    ELSE /\ activeVoices' = activeVoices + 1
         /\ notesStarted' = notesStarted + 1
         /\ lastStart' = currentTime
         /\ UNCHANGED timers

\* playNote (114-167): with no context nothing happens; otherwise one more
\* voice sounds and its cleanup is scheduled after the release tail.
PlayNote ==
    IF ctxState = "none"
    THEN UNCHANGED <<activeVoices, timers, notesStarted, lastStart>>
    ELSE /\ activeVoices' = activeVoices + 1
         /\ timers' = InsertTimer(timers, CleanupDelay(smInverted))
         /\ notesStarted' = notesStarted + 1
         /\ lastStart' = currentTime


\* triggerInteractionSound (95-112) as a relation on the sound manager's state.
TriggerSound ==
    /\ UNCHANGED <<ctxState, masterGain, isInitialized, currentScale,
                   smInverted, isMuted, audioAvailable, currentTime,
                   cleanupsFired>>
    /\ IF SoundBlocked(isInitialized, isMuted)
       THEN UNCHANGED <<resumeRequested, lastNoteTime, activeVoices, timers,
                        notesStarted, lastStart>>
       ELSE /\ resumeRequested' = ResumeAfterTrigger(ctxState, resumeRequested)
            /\ IF VoiceCapReached(activeVoices) \/ ctxState = "none"
                  \/ RateLimited(currentTime, lastNoteTime)
               THEN UNCHANGED <<lastNoteTime, activeVoices, timers,
                                notesStarted, lastStart>>
               ELSE /\ PlayNote
                    /\ lastNoteTime' = currentTime

\* line 105 dereferences this.ctx: a TypeError when it is null.
TriggerThrows ==
    /\ ~SoundBlocked(isInitialized, isMuted)
    /\ ~VoiceCapReached(activeVoices)
    /\ ctxState = "none"

\* init (55-74) as a relation on the sound manager's state.  Without an
\* AudioContext constructor line 59 throws before anything is assigned.  A new
\* context starts running or, when the browser holds it back, suspended.
InitSound ==
    /\ UNCHANGED <<currentScale, smInverted, lastNoteTime, activeVoices,
                   isMuted, audioAvailable, currentTime, resumeRequested,
                   timers, notesStarted, cleanupsFired, lastStart>>
    /\ IF isInitialized \/ ~audioAvailable
       THEN UNCHANGED <<ctxState, masterGain, isInitialized>>
       ELSE /\ ctxState' \in {"suspended", "running"}
            /\ masterGain' = InitGain
            /\ isInitialized' = TRUE

InitThrows == ~isInitialized /\ ~audioAvailable

\* toggleMute (43-53)
MuteSound ==
    /\ isMuted' = ~isMuted
    /\ masterGain' = IF masterGain = NoGain THEN NoGain
                     ELSE IF isMuted' THEN 0 ELSE UnmutedGain
    /\ UNCHANGED <<ctxState, isInitialized, currentScale, smInverted,
                   lastNoteTime, activeVoices, audioAvailable, currentTime,
                   resumeRequested, timers, notesStarted, cleanupsFired,
                   lastStart>>

\* setInverted (38-41)
InvertSound(inverted) ==
    /\ smInverted' = inverted
    /\ currentScale' = IF inverted THEN "inverted" ELSE "default"
    /\ UNCHANGED <<ctxState, masterGain, isInitialized, lastNoteTime,
                   activeVoices, isMuted, audioAvailable, currentTime,
                   resumeRequested, timers, notesStarted, cleanupsFired,
                   lastStart>>

(***************************************************************************)
(* The SoundManager's methods called directly, and its environment.        *)
(***************************************************************************)
TriggerInteractionSound ==
    /\ TriggerSound
    /\ lastOp' = IF notesStarted' > notesStarted THEN "note" ELSE "trigger"
    /\ threw' = TriggerThrows
    /\ UNCHANGED simVars

SoundInit ==
    /\ InitSound
    /\ lastOp' = "init"
    /\ threw' = InitThrows
    /\ UNCHANGED simVars

ToggleMute ==
    /\ MuteSound
    /\ lastOp' = "mute"
    /\ threw' = FALSE
    /\ UNCHANGED simVars

SetInverted ==
    \E b \in BOOLEAN :
        /\ InvertSound(b)
        /\ lastOp' = "setInverted"
        /\ threw' = FALSE
        /\ UNCHANGED simVars

\* The audio clock advances while the context runs.
AdvanceClock ==
    \E d \in ClockSteps :
        /\ ctxState = "running"
        /\ currentTime + d <= MaxTime
        /\ currentTime' = currentTime + d
        /\ lastOp' = "env"
        /\ threw' = FALSE
        /\ UNCHANGED <<ctxState, masterGain, isInitialized, currentScale,
                       smInverted, lastNoteTime, activeVoices, isMuted,
                       audioAvailable, resumeRequested, timers, notesStarted,
                       cleanupsFired, lastStart, simVars>>

\* Event-loop time passes: every pending timeout comes d closer.
TimerTick ==
    \E d \in TimerSteps :
        /\ \E i \in 1..Len(timers) : timers[i] > 0
        /\ timers' = [i \in 1..Len(timers) |-> Max0(timers[i] - d)]
        /\ lastOp' = "env"
        /\ threw' = FALSE
        /\ UNCHANGED <<ctxState, masterGain, isInitialized, currentScale,
                       smInverted, lastNoteTime, activeVoices, isMuted,
                       audioAvailable, currentTime, resumeRequested,
                       notesStarted, cleanupsFired, lastStart, simVars>>

\* A timeout whose delay has elapsed runs its callback (163-166), once.
CleanupTimer ==
    /\ timers # <<>>
    /\ Head(timers) = 0
    /\ timers' = Tail(timers)
    /\ activeVoices' = VoicesAfterCleanup(activeVoices)
    /\ cleanupsFired' = cleanupsFired + 1
    /\ lastOp' = "env"
    /\ threw' = FALSE
    /\ UNCHANGED <<ctxState, masterGain, isInitialized, currentScale,
                   smInverted, lastNoteTime, isMuted, audioAvailable,
                   currentTime, resumeRequested, notesStarted, lastStart,
                   simVars>>

\* The audio clock between the frames of the page.
PageClock ==
    /\ ctxState = "running"
    /\ currentTime + noteDensity <= MaxPageTime
    /\ currentTime' = currentTime + noteDensity
    /\ lastOp' = "env"
    /\ threw' = FALSE
    /\ UNCHANGED <<ctxState, masterGain, isInitialized, currentScale,
                   smInverted, lastNoteTime, activeVoices, isMuted,
                   audioAvailable, resumeRequested, timers, notesStarted,
                   cleanupsFired, lastStart, simVars>>

\* The resume() promise resolves.
CtxResume ==
    /\ ctxState = "suspended"
    /\ resumeRequested
    /\ ctxState' = "running"
    /\ resumeRequested' = FALSE
    /\ lastOp' = "env"
    /\ threw' = FALSE
    /\ UNCHANGED <<masterGain, isInitialized, currentScale, smInverted,
                   lastNoteTime, activeVoices, isMuted, audioAvailable,
                   currentTime, timers, notesStarted, cleanupsFired, lastStart,
                   simVars>>

\* The browser suspends a running context.
CtxSuspend ==
    /\ ctxState = "running"
    /\ ctxState' = "suspended"
    /\ lastOp' = "env"
    /\ threw' = FALSE
    /\ UNCHANGED <<masterGain, isInitialized, currentScale, smInverted,
                   lastNoteTime, activeVoices, isMuted, audioAvailable,
                   currentTime, resumeRequested, timers, notesStarted,
                   cleanupsFired, lastStart, simVars>>

(***************************************************************************)
(* ParticleSimulation: configuration (177-192) and fixed-point arithmetic. *)
(***************************************************************************)
Scale == 10 * 10 * 10       \* thousandths

mouseRadius == 150000       \* 150
mouseForce == 1000          \* 1.0
pressedBoost == 2500        \* isMouseDown ? 2.5 : 1
returnSpeed == 900          \* 0.0009, in millionths
rotationSpeed == 3          \* 0.003 rad
noiseAmount == 100          \* 0.1
windStrength == 90          \* 0.09
windTurbulence == 200       \* 0.2
damping == 960              \* 0.96
audibleForce == 100         \* force > 0.1
returnDeadband == 100       \* displacement > 0.1
windReach == 50             \* displacement / 50
energyThreshold == 5000     \* totalInteractionForce > 5.0
maxChance == 500            \* Math.min(..., 0.5)

shapeOrder == <<"sphere", "cube", "pyramid">>

(***************************************************************************)
(* Bounds of the model.                                                    *)
(***************************************************************************)
NumParticles == 3           \* config.particleCount
MaxFrames == 2              \* frames followed
MaxToggles == 4             \* toggleShape calls followed
MaxInitCalls == 2           \* init() calls of the mousedown listener followed
FrameMs == 17               \* milliseconds from one frame to the next
RandomSamples == {0, 400}   \* values Math.random() returns at line 754
\* Values of noise3D per axis, and the noise fields a frame may meet: which
\* particle draws which value.
NoiseVectors == <<<<900, 0 - 500, 200>>, <<0 - 700, 300, 0 - 900>>>>
NoiseFields == {[i \in 1..NumParticles |-> NoiseVectors[((i + k) % 2) + 1]] :
                    k \in 0..1}
MousePoints == {<<0, 0, 0>>, <<5000, 0, 0>>, <<200000, 40000, 0>>}

Abs(x) == IF x < 0 THEN 0 - x ELSE x

Max2(a, b) == IF a < b THEN b ELSE a

Min2(a, b) == IF a < b THEN a ELSE b

\* a / b rounded to the nearest integer (b > 0), as floating point rounds.
RDiv(a, b) ==
    IF a >= 0 THEN (a + b \div 2) \div b ELSE 0 - ((b \div 2 - a) \div b)

RECURSIVE SqrtSearch(_, _, _)
SqrtSearch(n, lo, hi) ==
    IF lo >= hi THEN lo
    ELSE LET mid == (lo + hi + 1) \div 2
         IN  IF mid * mid <= n THEN SqrtSearch(n, mid, hi)
             ELSE SqrtSearch(n, lo, mid - 1)

\* Math.sqrt on the fixed-point grid.
ISqrt(n) == SqrtSearch(n, 0, 46340)

\* Math.sqrt(dx * dx + dy * dy + dz * dz); long vectors are measured in
\* hundredths so that the squares stay within the integers of the checker.
Norm(d) ==
    IF Max2(Abs(d[1]), Max2(Abs(d[2]), Abs(d[3]))) <= 26000
    THEN ISqrt(d[1] * d[1] + d[2] * d[2] + d[3] * d[3])
    ELSE 10 * ISqrt(RDiv(d[1], 10) * RDiv(d[1], 10)
                    + RDiv(d[2], 10) * RDiv(d[2], 10)
                    + RDiv(d[3], 10) * RDiv(d[3], 10))

\* Product of two thousandths.
Mul(a, b) == RDiv(a * b, Scale)

(***************************************************************************)
(* Shape generation (452-498).  Math.random() makes the clouds arbitrary   *)
(* points of each shape; the model fixes one cloud per shape.              *)
(***************************************************************************)
SphereCloud ==
    <<<<5000, 0, 0>>, <<0, 0 - 6000, 3000>>, <<0 - 4000, 4000, 0>>,
      <<0, 0, 0>>, <<100000, 20000, 0 - 30000>>>>

CubeCloud ==
    <<<<40000, 0 - 30000, 20000>>, <<0 - 50000, 10000, 60000>>,
      <<0, 80000, 0 - 20000>>, <<10000, 10000, 10000>>,
      <<0 - 112000, 112000, 0>>>>

PyramidCloud ==
    <<<<30000, 0, 0 - 20000>>, <<0 - 60000, 0 - 90000, 45000>>,
      <<5000, 72000, 0 - 3000>>, <<20000, 0 - 45000, 60000>>,
      <<0, 90000, 0>>>>

\* this.config (176-192) as the constructor writes it.
ConfigLiteral ==
    [particleCount |-> NumParticles,
     mouseRadius   |-> mouseRadius,
     mouseForce    |-> mouseForce,
     windStrength  |-> windStrength,
     noiseAmount   |-> noiseAmount]

\* generateShapePositions (452-512) for count particles.
GenerateShape(name, count) ==
    SubSeq(IF name = "sphere" THEN SphereCloud
           ELSE IF name = "cube" THEN CubeCloud ELSE PyramidCloud,
           1, count)

\* this.shapes[name] after createParticles (339-346)
shapes(name) == GenerateShape(name, NumParticles)

\* A velocity buffer of count particles, all zero (351-353, 611).
Zeros(count) == [i \in 1..count |-> <<0, 0, 0>>]

ZeroVelocities == Zeros(NumParticles)

\* Mutant: the origin buffer is the stored sphere itself, not a copy of it.
OriginBufferAliased == "sphere"

\* line 334: originalPositions is a Float32Array of its own ("own"), not one
\* of the arrays of this.shapes.
OriginBuffer == "own"

(***************************************************************************)
(* updateParticles (654-766)                                               *)
(***************************************************************************)

\* windX, windY, windZ (667-670) at t milliseconds: windAngle = time * 0.1
\* stays small over the frames followed, so cos a = 1 - a^2/2 and sin a = a.
Wind(t, strength) ==
    LET windAngle == RDiv(t, 10)
        cosA == Scale - RDiv(windAngle * windAngle, 2 * Scale)
    IN  <<Mul(cosA, strength),
          RDiv(Mul(RDiv(windAngle * 7, 10), strength) * 5, 10),
          RDiv(Mul(RDiv(windAngle * 5, 10), strength) * 3, 10)>>

\* Mutant: the world matrix is brought up to date before it is read.
WorldRotationCurrent(matrixRot, rot) == rot

\* The world matrix the interaction point is transformed by (675).
WorldRotationSeen(matrixRot, rot) == matrixRot

\* mouseWorld.clone().applyMatrix4(matrixWorld.clone().invert()) (674-675):
\* the inverse of a rotation about the y axis by rot thousandths of a radian,
\* with cos r = 1 - r^2/2 and sin r = r (rot stays small).
MousePos(mw, rot) ==
    LET halfSq == RDiv(rot * rot, 2)
        cosx == mw[1] - RDiv(mw[1] * halfSq, Scale * Scale)
        cosz == mw[3] - RDiv(mw[3] * halfSq, Scale * Scale)
    IN  <<cosx - Mul(mw[3], rot), mw[2], Mul(mw[1], rot) + cosz>>

\* Mutant: the guard against a zero distance is missing.
InMouseReachUnguarded(dist, radius) == dist < radius

\* line 701: if (dist < mouseRadius && dist > 0)
InMouseReach(dist, radius) == dist < radius /\ dist > 0

\* dx / dist (706-708), scaled; a zero dist makes the quotient NaN, which
\* ParticleStep reports in its nan field while 0 stands in for the value.
Quotient(a, dist) == IF dist = 0 THEN 0 ELSE RDiv(a * Scale, dist)

\* line 711: if (force > 0.1)
Audible(force) == force > audibleForce

\* Mutant: the comparison with the dead band is turned round.
ReturnsInsideDeadband(displacement) == displacement < returnDeadband

\* line 726: if (displacement > 0.1)
Returns(displacement) == displacement > returnDeadband

\* One iteration of the loop 680-748: particle at p with velocity v and
\* origin o, interaction point mp, mouse force mf, wind w, noise samples n
\* (noise3D is called with the same arguments at 718-720 and at 736-738),
\* configuration cfg.
ParticleStep(p, v, o, mp, mf, w, n, cfg) ==
    LET disp == <<p[1] - o[1], p[2] - o[2], p[3] - o[3]>>
        displacement == Norm(disp)
        d == <<p[1] - mp[1], p[2] - mp[2], p[3] - mp[3]>>
        dist == Norm(d)
        hit == InMouseReach(dist, cfg.mouseRadius)
        falloff == Scale - RDiv(dist * Scale, cfg.mouseRadius)
        force == IF hit THEN Mul(Mul(falloff, falloff), mf) ELSE 0
        tangentX == RDiv((0 - d[2]) * 3, 10)
        tangentY == RDiv(d[1] * 3, 10)
        push == IF hit
                THEN <<Mul(Quotient(d[1], dist), force)
                         + RDiv(Mul(tangentX, force) * 2, 10),
                       Mul(Quotient(d[2], dist), force)
                         + RDiv(Mul(tangentY, force) * 2, 10),
                       Mul(Quotient(d[3], dist), force)>>
                ELSE <<0, 0, 0>>
        windInfluence == RDiv(Min2(RDiv(displacement, windReach), Scale), 2)
        blow == [k \in 1..3 |->
                    RDiv(Mul(w[k] + Mul(n[k], windTurbulence), windInfluence) * 5,
                         100)]
        pullStrength == Mul(returnSpeed, Scale + RDiv(displacement, 100))
        pull == [k \in 1..3 |->
                    IF Returns(displacement)
                    THEN RDiv((0 - disp[k]) * pullStrength, Scale * Scale)
                    ELSE 0]
        jitter == [k \in 1..3 |->
                    IF cfg.noiseAmount > 0
                    THEN RDiv(Mul(n[k], cfg.noiseAmount), 100)
                    ELSE 0]
        nv == [k \in 1..3 |-> v[k] + push[k] + blow[k] + pull[k] + jitter[k]]
    IN  [pos |-> <<p[1] + nv[1], p[2] + nv[2], p[3] + nv[3]>>,
         vel |-> <<Mul(nv[1], damping), Mul(nv[2], damping), Mul(nv[3], damping)>>,
         force |-> IF hit /\ Audible(force) THEN force ELSE 0,
         push |-> push,
         nan |-> hit /\ dist = 0]

RECURSIVE SumForces(_, _)
SumForces(steps, i) ==
    IF i = 0 THEN 0 ELSE steps[i].force + SumForces(steps, i - 1)

\* const mouseForce = this.config.mouseForce * (this.isMouseDown ? 2.5 : 1)
EffectiveMouseForce(force, down) ==
    IF down THEN Mul(force, pressedBoost) ELSE force

\* Mutant: any interaction at all is forwarded.
MeaningfulAnyForce(energy) == energy > 0

\* line 751: if (totalInteractionForce > 5.0)
Meaningful(energy) == energy > energyThreshold

\* line 754: Math.random() < Math.min(totalInteractionForce * 0.005, 0.5)
ChancePasses(rnd, energy) == rnd < Min2(RDiv(energy * 5, Scale), maxChance)

(***************************************************************************)
(* ParticleSimulation: methods                                             *)
(***************************************************************************)

\* Mutant: the index is advanced once more than it should be.
NextShapeSkipping(shape) ==
    LET currentIndex == CHOOSE i \in 1..Len(shapeOrder) : shapeOrder[i] = shape
    IN  shapeOrder[((currentIndex + 1) % Len(shapeOrder)) + 1]

\* toggleShape 769-771: the shape after the current one in shapeOrder.
NextShape(shape) ==
    LET currentIndex == CHOOSE i \in 1..Len(shapeOrder) : shapeOrder[i] = shape
    IN  shapeOrder[(currentIndex % Len(shapeOrder)) + 1]

\* Mutant: the particles are snapped onto the new shape.
ToggleShapeSnapping ==
    /\ currentShape' = NextShape(currentShape)
    /\ originalPositions' = storedShapes[currentShape']
    /\ UNCHANGED storedShapes
    /\ isTransforming' = TRUE
    /\ toggles' = toggles + 1
    /\ positions' = originalPositions'
    /\ velocities' = ZeroVelocities

\* toggleShape (768-782): the loop 776-778 copies the new target into the
\* origin buffer, element by element.
ToggleShape ==
    /\ currentShape' = NextShape(currentShape)
    /\ originalPositions' = storedShapes[currentShape']
    /\ storedShapes' = IF OriginBuffer = "own" THEN storedShapes
                       ELSE [storedShapes EXCEPT
                                ![OriginBuffer] = storedShapes[currentShape']]
    /\ isTransforming' = TRUE
    /\ toggles' = toggles + 1
    /\ UNCHANGED <<positions, velocities>>

\* Mutant: the velocities are not cleared.
ResetFieldKeepingVelocity ==
    /\ positions' = originalPositions
    /\ UNCHANGED <<velocities, originalPositions>>

\* resetParticles (604-616)
ResetField ==
    /\ positions' = originalPositions
    /\ velocities' = Zeros(config.particleCount)
    /\ UNCHANGED originalPositions

\* Mutant: the frozen flag is not consulted.
PhysicsRunsAlways(frozen) == TRUE

\* line 646: if (!this.isFrozen)
PhysicsRuns(frozen) == ~frozen

\* line 642-643: the rotation after this frame's increment.
Rotated(rot, inverted) ==
    rot + rotationSpeed * (IF inverted THEN 0 - 1 ELSE 1)

\* updateParticles(time) called with particles.rotation.y = rotNow, noise
\* samples n and the value rnd of Math.random() at line 754.
UpdateParticles(t, n, rnd, rotNow) ==
    LET seen == WorldRotationSeen(matrixWorldY, rotNow)
        mp == MousePos(mouseWorld, seen)
        mf == EffectiveMouseForce(config.mouseForce, isMouseDown)
        w == Wind(t, config.windStrength)
    IN  \E steps \in {[i \in 1..config.particleCount |->
                    ParticleStep(positions[i], velocities[i], originalPositions[i],
                                 mp, mf, w, n[i], config)]} :
        \E energy \in {SumForces(steps, config.particleCount)} :
        LET notify == Meaningful(energy) /\ ChancePasses(rnd, energy) IN
        /\ positions' = [i \in 1..config.particleCount |-> steps[i].pos]
        /\ velocities' = [i \in 1..config.particleCount |-> steps[i].vel]
        /\ framePush' = [i \in 1..config.particleCount |-> steps[i].push]
        /\ frameCounted' = [i \in 1..config.particleCount |-> steps[i].force]
        /\ frameNaN' = \E i \in 1..config.particleCount : steps[i].nan
        /\ UNCHANGED originalPositions
        /\ isTransforming' = FALSE
        /\ IF notify THEN TriggerSound ELSE UNCHANGED soundVars
        /\ threw' = (notify /\ TriggerThrows)
        /\ rotSeen' = seen
        /\ rotAtIntegrate' = rotNow
        /\ frameEnergy' = energy
        /\ frameNotified' = IF notify THEN 1 ELSE 0
        /\ frameNotes' = notesStarted' - notesStarted
        /\ frameLog' = <<"rotate", "integrate">>
                       \o (IF notify THEN <<"notify">> ELSE <<>>)
                       \o (IF threw' THEN <<>> ELSE <<"render">>)

\* animate (631-652): one frame.  composer.render() refreshes matrixWorld.
Animate ==
    /\ frames < MaxFrames
    /\ \E n \in NoiseFields, rnd \in RandomSamples :
        /\ time' = frames * FrameMs
        /\ rotationY' = Rotated(rotationY, isInverted)
        /\ IF PhysicsRuns(isFrozen)
           THEN UpdateParticles(time', n, rnd, rotationY')
           ELSE /\ UNCHANGED <<fieldVars, isTransforming, soundVars, rotSeen,
                               rotAtIntegrate, framePush, frameCounted>>
                /\ frameNaN' = FALSE
                /\ threw' = FALSE
                /\ frameEnergy' = 0
                /\ frameNotified' = 0
                /\ frameNotes' = 0
                /\ frameLog' = <<"rotate", "render">>
        /\ matrixWorldY' = IF threw' THEN matrixWorldY ELSE rotationY'
    /\ frames' = frames + 1
    /\ lastOp' = "animate"
    /\ UNCHANGED <<currentShape, storedShapes, isFrozen, isInverted,
                   isMouseDown, hasInteracted, initCalls, config, mouseWorld,
                   toggles>>

frameHistory == <<frames, frameLog, rotSeen, rotAtIntegrate, frameEnergy,
                  frameNotified, frameNotes, framePush, frameCounted, frameNaN>>

\* The listeners (514-602) run only once the constructor, whose last
\* statement is the first animate() call, has returned.  The page is followed
\* up to its MaxFrames-th frame.
Listening == frames > 0 /\ frames < MaxFrames

\* mousemove (516-530) and touchmove (549-559)
PointerMove ==
    /\ Listening
    /\ \E p \in MousePoints : mouseWorld' = p
    /\ lastOp' = "move"
    /\ threw' = FALSE
    /\ UNCHANGED <<soundVars, fieldVars, currentShape, storedShapes,
                   isTransforming, isFrozen, isInverted, isMouseDown,
                   hasInteracted, initCalls, config, rotationY, matrixWorldY,
                   time, toggles, frameHistory>>

\* mousedown (533-542): an exception in init() ends the handler, before
\* hasInteracted is set.
MouseDown ==
    /\ Listening
    /\ toggles < MaxToggles
    /\ ~hasInteracted => initCalls < MaxInitCalls
    /\ lastOp' = "mousedown"
    /\ IF ~hasInteracted THEN InitSound ELSE UNCHANGED soundVars
    /\ initCalls' = IF ~hasInteracted THEN initCalls + 1 ELSE initCalls
    /\ threw' = (~hasInteracted /\ InitThrows)
    /\ IF threw'
       THEN UNCHANGED <<hasInteracted, isMouseDown, fieldVars, currentShape,
                        storedShapes, isTransforming, toggles>>
       ELSE /\ hasInteracted' = TRUE
            /\ isMouseDown' = TRUE
            /\ ToggleShape
    /\ UNCHANGED <<isFrozen, isInverted, config, mouseWorld, rotationY,
                   matrixWorldY, time, frameHistory>>

\* mouseup (543-546) and touchend (568)
PointerUp ==
    /\ Listening
    /\ isMouseDown' = FALSE
    /\ lastOp' = "up"
    /\ threw' = FALSE
    /\ UNCHANGED <<soundVars, fieldVars, currentShape, storedShapes,
                   isTransforming, isFrozen, isInverted, hasInteracted,
                   initCalls, config, mouseWorld, rotationY, matrixWorldY,
                   time, toggles, frameHistory>>

\* touchstart (561-566)
TouchStart ==
    /\ Listening
    /\ isMouseDown' = TRUE
    /\ lastOp' = "touchstart"
    /\ threw' = FALSE
    /\ UNCHANGED <<soundVars, fieldVars, currentShape, storedShapes,
                   isTransforming, isFrozen, isInverted, hasInteracted,
                   initCalls, config, mouseWorld, rotationY, matrixWorldY,
                   time, toggles, frameHistory>>

\* keydown Space (572-575)
KeySpace ==
    /\ Listening
    /\ toggles < MaxToggles
    /\ ToggleShape
    /\ lastOp' = "keySpace"
    /\ threw' = FALSE
    /\ UNCHANGED <<soundVars, isFrozen, isInverted, isMouseDown, hasInteracted,
                   initCalls, config, mouseWorld, rotationY, matrixWorldY,
                   time, frameHistory>>

\* keydown KeyF (576-580)
KeyF ==
    /\ Listening
    /\ isFrozen' = ~isFrozen
    /\ lastOp' = "keyF"
    /\ threw' = FALSE
    /\ UNCHANGED <<soundVars, fieldVars, currentShape, storedShapes,
                   isTransforming, isInverted, isMouseDown, hasInteracted,
                   initCalls, config, mouseWorld, rotationY, matrixWorldY,
                   time, toggles, frameHistory>>

\* keydown KeyI (581-584): toggleInvert (784-818)
KeyI ==
    /\ Listening
    /\ isInverted' = ~isInverted
    /\ InvertSound(isInverted')
    /\ lastOp' = "keyI"
    /\ threw' = FALSE
    /\ UNCHANGED <<fieldVars, currentShape, storedShapes, isTransforming,
                   isFrozen, isMouseDown, hasInteracted, initCalls, config,
                   mouseWorld, rotationY, matrixWorldY, time, toggles,
                   frameHistory>>

\* keydown KeyM (585-590)
KeyM ==
    /\ Listening
    /\ MuteSound
    /\ lastOp' = "keyM"
    /\ threw' = FALSE
    /\ UNCHANGED simVars

\* resetParticles() called on the simulation.
ResetParticles ==
    /\ Listening
    /\ ResetField
    /\ lastOp' = "reset"
    /\ threw' = FALSE
    /\ UNCHANGED <<soundVars, currentShape, storedShapes, isTransforming,
                   isFrozen, isInverted, isMouseDown, hasInteracted, initCalls,
                   config, mouseWorld, rotationY, matrixWorldY, time, toggles,
                   frameHistory>>

\* new ParticleSimulation() up to, but without, its first animate() call,
\* were this.config written as cfg: no statement of the constructor, of init
\* or of createParticles tests the configuration.
Constructed(cfg) ==
    /\ config = cfg
    /\ storedShapes = [name \in {"sphere", "cube", "pyramid"} |->
                          GenerateShape(name, cfg.particleCount)]
    /\ positions = storedShapes["sphere"]
    /\ originalPositions = storedShapes["sphere"]
    /\ velocities = Zeros(cfg.particleCount)
    /\ currentShape = "sphere"
    /\ isTransforming = FALSE
    /\ isFrozen = FALSE
    /\ isInverted = FALSE
    /\ isMouseDown = FALSE
    /\ hasInteracted = FALSE
    /\ mouseWorld = <<0, 0, 0>>
    /\ rotationY = 0
    /\ matrixWorldY = 0
    /\ time = 0
    /\ frames = 0
    /\ toggles = 0
    /\ initCalls = 0
    /\ frameLog = <<>>
    /\ rotSeen = 0
    /\ rotAtIntegrate = 0
    /\ frameEnergy = 0
    /\ frameNotified = 0
    /\ frameNotes = 0
    /\ framePush = <<>>
    /\ frameCounted = <<>>
    /\ frameNaN = FALSE

\* new ParticleSimulation() as the source writes it.
SimInitState == Constructed(ConfigLiteral)

\* new SoundManager() (11-36)
SoundInitState ==
    /\ ctxState = "none"
    /\ masterGain = NoGain
    /\ isInitialized = FALSE
    /\ currentScale = "default"
    /\ smInverted = FALSE
    /\ lastNoteTime = 0
    /\ activeVoices = 0
    /\ isMuted = FALSE
    /\ audioAvailable \in BOOLEAN
    /\ currentTime = 0
    /\ resumeRequested = FALSE
    /\ timers = <<>>
    /\ notesStarted = 0
    /\ cleanupsFired = 0
    /\ lastStart = 0

Init ==
    /\ SoundInitState
    /\ SimInitState
    /\ lastOp = "new"
    /\ threw = FALSE

SoundNext ==
    \/ TriggerInteractionSound
    \/ SoundInit
    \/ ToggleMute
    \/ SetInverted
    \/ AdvanceClock
    \/ TimerTick
    \/ CleanupTimer
    \/ CtxResume
    \/ CtxSuspend

\* The SoundManager on its own: its methods called in any order.
SpecSound == Init /\ [][SoundNext]_vars

\* The page: frames, input events, and the audio subsystem's environment.
Next ==
    \/ Animate
    \/ PointerMove
    \/ MouseDown
    \/ PointerUp
    \/ TouchStart
    \/ KeySpace
    \/ KeyF
    \/ KeyI
    \/ KeyM
    \/ PageClock
    \/ TimerTick
    \/ CleanupTimer
    \/ CtxResume
    \/ CtxSuspend

Spec == Init /\ [][Next]_vars

\* The page, with resetParticles() called on the simulation as well.
FieldNext == Next \/ ResetParticles

SpecField == Init /\ [][FieldNext]_vars

\* The constructor run on other configurations than the one it writes: the
\* literals of lines 178 and 180 replaced by a zero particle count and by a
\* negative mouse radius.
Configs ==
    {ConfigLiteral,
     [ConfigLiteral EXCEPT !.particleCount = 0],
     [ConfigLiteral EXCEPT !.mouseRadius = 0 - mouseRadius]}

ConfigInit ==
    /\ SoundInitState
    /\ \E cfg \in Configs : Constructed(cfg)
    /\ lastOp = "new"
    /\ threw = FALSE

SpecConfig == ConfigInit /\ [][Next]_vars

\* updateParticles as a function of the field, the interaction point and the
\* configuration: the frames are run from fields whose particles are off
\* their origins and moving, with the configuration as written or with
\* mouseForce, windStrength and noiseAmount set to 0.
SpringConfig ==
    [ConfigLiteral EXCEPT !.mouseForce = 0, !.windStrength = 0, !.noiseAmount = 0]

StartOffsets ==
    <<<<0, 0, 0>>, <<50, 0, 0>>, <<20000, 0, 0>>, <<0, 0 - 3000, 4000>>>>

StartVelocities == <<<<0, 0, 0>>, <<500, 0, 0>>, <<0 - 300, 0, 400>>>>

StartMousePoints == MousePoints \cup {<<115000, 0, 0>>, <<155000, 0, 0>>}

Plus(a, b) == <<a[1] + b[1], a[2] + b[2], a[3] + b[3]>>

IntegrateInit ==
    /\ SoundInitState
    /\ config \in {ConfigLiteral, SpringConfig}
    /\ storedShapes = [name \in {"sphere", "cube", "pyramid"} |->
                          GenerateShape(name, NumParticles)]
    /\ originalPositions = storedShapes["sphere"]
    /\ \E k \in 0..(Len(StartOffsets) - 1) :
          positions = [i \in 1..NumParticles |->
                          Plus(originalPositions[i],
                               StartOffsets[((i + k - 1) % Len(StartOffsets)) + 1])]
    /\ \E k \in 0..(Len(StartVelocities) - 1) :
          velocities = [i \in 1..NumParticles |->
                           StartVelocities[((i + k - 1) % Len(StartVelocities)) + 1]]
    /\ mouseWorld \in StartMousePoints
    /\ isMouseDown \in BOOLEAN
    /\ currentShape = "sphere"
    /\ isTransforming = FALSE
    /\ isFrozen = FALSE
    /\ isInverted = FALSE
    /\ hasInteracted = FALSE
    /\ rotationY = 0
    /\ matrixWorldY = 0
    /\ time = 0
    /\ frames = 0
    /\ toggles = 0
    /\ initCalls = 0
    /\ frameLog = <<>>
    /\ rotSeen = 0
    /\ rotAtIntegrate = 0
    /\ frameEnergy = 0
    /\ frameNotified = 0
    /\ frameNotes = 0
    /\ framePush = <<>>
    /\ frameCounted = <<>>
    /\ frameNaN = FALSE
    /\ lastOp = "new"
    /\ threw = FALSE

IntegrateNext == Animate

SpecIntegrate == IntegrateInit /\ [][IntegrateNext]_vars

\* The SoundManager followed for a few notes, with the event loop's
\* guarantee that time passes and that a timeout that is due runs.
LiveSoundNext ==
    \/ TriggerInteractionSound
    \/ SoundInit
    \/ ToggleMute
    \/ SetInverted
    \/ PageClock
    \/ TimerTick
    \/ CleanupTimer
    \/ CtxResume
    \/ CtxSuspend

FairSpecSound ==
    /\ Init
    /\ [][LiveSoundNext]_vars
    /\ WF_vars(TimerTick)
    /\ WF_vars(CleanupTimer)

(***************************************************************************)
(* Properties of the SoundManager                                          *)
(***************************************************************************)
TriggerStep == lastOp' \in {"trigger", "note"}

\* C1: in every reachable state of the SoundManager, whatever the order of
\* triggerInteractionSound calls, clock advances and cleanup firings, the
\* number of active voices is at most maxVoices.
VoiceCap == activeVoices <= maxVoices

\* A call that only the cap rejected: all voices sound, the sound manager is
\* initialized and unmuted, and noteDensity has passed since the last note.
VoiceCapWitness ==
    /\ lastOp = "trigger"
    /\ activeVoices = maxVoices
    /\ isInitialized /\ ~isMuted
    /\ currentTime - lastNoteTime >= noteDensity

\* C2: a call that starts a note, once a note has been started before, comes
\* at least noteDensity after that note on the audio clock; so of two calls
\* less than noteDensity apart at most one starts a note.
RateLimit ==
    [][(TriggerStep /\ notesStarted >= 1 /\ notesStarted' > notesStarted)
          => currentTime' - lastStart >= noteDensity]_vars

\* Two notes exactly noteDensity apart, then a call at the time of the second
\* one that the rate limit alone rejected.
RateLimitWitness ==
    /\ lastOp = "trigger"
    /\ notesStarted >= 2
    /\ isInitialized /\ ~isMuted
    /\ activeVoices < maxVoices
    /\ currentTime - lastStart < noteDensity

\* C3: every started note is released: the k-th cleanup eventually runs once
\* k notes have been started, each cleanup takes one voice off the count, no
\* cleanup runs without its note, and when no more notes are started the
\* count returns to 0 for good.
NotesSelfRelease ==
    /\ \A k \in 1..maxVoices : (notesStarted >= k) ~> (cleanupsFired >= k)
    /\ [][cleanupsFired' # cleanupsFired
            => /\ cleanupsFired' = cleanupsFired + 1
               /\ cleanupsFired' <= notesStarted
               /\ activeVoices' = activeVoices - 1]_vars
    /\ <>[](activeVoices = 0)

\* Two notes were started, one of them inverted, and both have been released.
NotesSelfReleaseWitness ==
    /\ notesStarted = 2
    /\ cleanupsFired = 2
    /\ activeVoices = 0
    /\ timers = <<>>

ToggleStep == lastOp' \in {"keySpace", "mousedown"} /\ toggles' = toggles + 1

FrameStep == lastOp' = "animate" /\ frames' = frames + 1

\* The place of step x in a frame's log, 0 when the frame did not take it.
Place(log, x) ==
    IF \E i \in 1..Len(log) : log[i] = x
    THEN CHOOSE i \in 1..Len(log) : log[i] = x
    ELSE 0

\* C4: a toggleShape call, from the space key or from a mouse press, leaves
\* every particle's position and velocity exactly as they were before it.
ToggleKeepsMotion ==
    [][ToggleStep => positions' = positions /\ velocities' = velocities]_vars

\* The shape was toggled while the particles were moving, off their origins.
ToggleKeepsMotionWitness ==
    /\ lastOp = "keySpace"
    /\ toggles >= 1
    /\ velocities # ZeroVelocities
    /\ positions # originalPositions
    /\ \A name \in {"sphere", "cube", "pyramid"} : positions # shapes(name)

\* C5: after k toggles, counted from the sphere the simulation starts with,
\* the current shape is the (k mod 3)-th of sphere, cube, pyramid, and the
\* origin positions are that shape's stored point cloud.
ShapeCycle ==
    /\ currentShape = shapeOrder[(toggles % 3) + 1]
    /\ originalPositions = shapes(currentShape)

\* Three toggles have brought the shape back to the sphere.
ShapeCycleWitness ==
    /\ toggles = 3
    /\ currentShape = "sphere"
    /\ lastOp \in {"keySpace", "mousedown"}

\* C6: after resetParticles every particle is at its origin position with
\* velocity zero, and a second resetParticles right after the first changes
\* nothing.
ResetSnaps ==
    [][lastOp' = "reset"
          => /\ positions' = originalPositions'
             /\ velocities' = ZeroVelocities
             /\ lastOp = "reset" => UNCHANGED <<soundVars, simVars>>]_vars

\* A reset brought moving particles, still near the sphere, onto the cube.
ResetSnapsWitness ==
    /\ lastOp = "reset"
    /\ frames >= 1
    /\ currentShape = "cube"
    /\ positions = shapes("cube")
    /\ velocities = ZeroVelocities

\* C7: a frame run while isFrozen is set leaves positions, velocities and
\* origin positions unchanged, advances the rotation by rotationSpeed (by
\* -rotationSpeed when inverted) and ends with the render step.
FrozenFrame ==
    [][(FrameStep /\ isFrozen)
          => /\ UNCHANGED fieldVars
             /\ rotationY' - rotationY
                   = (IF isInverted THEN 0 - rotationSpeed ELSE rotationSpeed)
             /\ Len(frameLog') >= 1
             /\ frameLog'[Len(frameLog')] = "render"]_vars

\* A frozen, inverted frame has run on a field that was moving: the rotation
\* is back at the angle it started from.
FrozenFrameWitness ==
    /\ lastOp = "animate"
    /\ isFrozen /\ isInverted
    /\ frames = 2
    /\ rotationY = 0
    /\ frameLog = <<"rotate", "render">>
    /\ velocities # ZeroVelocities

\* C8 as stated: in a frame that is not frozen the physics integration comes
\* first, then the rotation increment, then the audio trigger if there is
\* one, then the rendering; the integration observes the rotation from before
\* the increment.
OrderAsStated ==
    [][(FrameStep /\ ~isFrozen)
          => /\ Place(frameLog', "integrate") >= 1
             /\ Place(frameLog', "integrate") < Place(frameLog', "rotate")
             /\ Place(frameLog', "rotate") < Place(frameLog', "render")
             /\ Place(frameLog', "notify") # 0
                   => /\ Place(frameLog', "rotate") < Place(frameLog', "notify")
                      /\ Place(frameLog', "notify") < Place(frameLog', "render")
             /\ rotSeen' = rotationY]_vars

\* C8, amended: in every frame the rotation increment comes first and the
\* rendering last; in a frame that is not frozen the physics integration
\* comes between them, after the increment, and the audio trigger, if there
\* is one, between the integration and the rendering.  The integration runs
\* with the rotation already incremented, but the world matrix it transforms
\* the interaction point by still holds the rotation from before the
\* increment.
FrameOrder ==
    [][FrameStep
          => /\ Place(frameLog', "rotate") = 1
             /\ Place(frameLog', "render") = Len(frameLog')
             /\ isFrozen => frameLog' = <<"rotate", "render">>
             /\ ~isFrozen
                   => /\ Place(frameLog', "integrate") = 2
                      /\ Place(frameLog', "notify") \in {0, 3}
                      /\ (Place(frameLog', "notify") = 3) <=> (frameNotified' = 1)
                      /\ rotAtIntegrate' = rotationY'
                      /\ rotAtIntegrate' # rotationY
                      /\ rotSeen' = rotationY]_vars

\* A frame with all four steps, the interaction point away from the axis.
FrameOrderWitness ==
    /\ lastOp = "animate"
    /\ frameLog = <<"rotate", "integrate", "notify", "render">>
    /\ rotSeen # rotAtIntegrate
    /\ mouseWorld[1] # 0

\* C9: a frame calls triggerInteractionSound at most once, and only when it
\* is not frozen and its summed interaction force is above 5.0; a frame
\* starts at most one note, and none when it is frozen or its summed force is
\* 5.0 or less.
NotifiedOncePerFrame ==
    [][FrameStep
          => /\ frameNotified' \in {0, 1}
             /\ frameNotified' = 1 => ~isFrozen /\ frameEnergy' > energyThreshold
             /\ notesStarted' - notesStarted \in {0, 1}
             /\ notesStarted' - notesStarted <= frameNotified'
             /\ (isFrozen \/ frameEnergy' <= energyThreshold)
                   => notesStarted' = notesStarted]_vars

\* A frame whose summed force was above the threshold started a note.
NotifiedOncePerFrameWitness ==
    /\ lastOp = "animate"
    /\ frameNotified = 1
    /\ frameNotes = 1
    /\ frameEnergy > energyThreshold
    /\ activeVoices >= 1

(***************************************************************************)
(* Properties of the SoundManager, continued                               *)
(***************************************************************************)

\* C12 as stated: whenever the sound manager is initialized, the master gain
\* is aimed at 0 if isMuted is set and at the level init established if it is
\* not; so muting and unmuting brings back the level of init.
MuteControlsGain ==
    isInitialized => masterGain = (IF isMuted THEN 0 ELSE InitGain)

\* C17: the voice count is never negative and equals the number of notes
\* started whose cleanup has not fired yet, one pending timer for each; a
\* toggleMute, setInverted or init call leaves the count as it was.
VoiceAccounting ==
    /\ [](/\ activeVoices >= 0
          /\ activeVoices = notesStarted - cleanupsFired
          /\ activeVoices = Len(timers))
    /\ [][lastOp' \in {"mute", "setInverted", "init"}
            => UNCHANGED <<activeVoices, timers, notesStarted, cleanupsFired>>]_vars

\* The sound was muted while two voices were sounding, after a first voice
\* had already been released.
VoiceAccountingWitness ==
    /\ lastOp = "mute"
    /\ isMuted
    /\ activeVoices = 2
    /\ Len(timers) = 2
    /\ cleanupsFired >= 1

(***************************************************************************)
(* Properties of the ParticleSimulation, continued                         *)
(***************************************************************************)

\* C11 as stated: the sound manager only moves from uninitialized to
\* initialized; an init call made while it is initialized changes nothing of
\* its state; and the mousedown listener calls init at most once however many
\* presses occur.
InitOnce ==
    /\ [][isInitialized => isInitialized']_vars
    /\ [][(lastOp' = "mousedown" /\ isInitialized) => UNCHANGED soundVars]_vars
    /\ [](initCalls <= 1)

\* A configuration the claim calls malformed.
Malformed(cfg) == cfg.particleCount <= 0 \/ cfg.mouseRadius < 0

ShapesImmutable ==
    storedShapes = [name \in {"sphere", "cube", "pyramid"} |-> shapes(name)]

\* After a frame, three toggles that brought the sphere back, a toggleInvert
\* and a reset, the origin buffer equals the stored sphere and the stored
\* clouds still differ from one another.
ShapesImmutableWitness ==
    /\ lastOp = "reset"
    /\ frames >= 1
    /\ toggles = 3
    /\ isInverted
    /\ originalPositions = storedShapes["sphere"]
    /\ storedShapes["sphere"] # storedShapes["cube"]
    /\ storedShapes["cube"] # storedShapes["pyramid"]

\* The distance of particle i from its origin, before and after a step.
Displacement(i) ==
    Norm(<<positions[i][1] - originalPositions[i][1],
           positions[i][2] - originalPositions[i][2],
           positions[i][3] - originalPositions[i][3]>>)

DisplacementAfter(i) ==
    Norm(<<positions'[i][1] - originalPositions'[i][1],
           positions'[i][2] - originalPositions'[i][2],
           positions'[i][3] - originalPositions'[i][3]>>)

\* C14 as stated: with mouseForce, windStrength and noiseAmount all 0, from
\* any position and velocity, an integration step leaves every particle's
\* displacement from its origin no larger than it was before the step (and
\* so, over the steps, never above where it started).
SpringMonotone ==
    [][(FrameStep /\ ~isFrozen /\ config = SpringConfig)
          => \A i \in 1..config.particleCount :
                DisplacementAfter(i) <= Displacement(i)]_vars

\* Displacements up to 1000 units, several times the extent of the shapes.
SpringRange == 1000 * Scale

\* C14, amended: with mouseForce, windStrength and noiseAmount all 0, an
\* integration step applied to a particle that is at rest (velocity zero) at
\* a displacement above the dead band of 0.1 and of at most 1000 units
\* leaves its displacement no larger than before.
SpringFromRest ==
    [][(FrameStep /\ ~isFrozen /\ config = SpringConfig)
          => \A i \in 1..config.particleCount :
                (/\ velocities[i] = <<0, 0, 0>>
                 /\ Displacement(i) > returnDeadband
                 /\ Displacement(i) <= SpringRange)
                   => DisplacementAfter(i) <= Displacement(i)]_vars

\* After one step a particle released at rest 20 units from its origin is
\* nearer to it, moving inwards no faster than the spring alone makes it.
SpringFromRestWitness ==
    /\ lastOp = "animate"
    /\ frames = 1
    /\ config = SpringConfig
    /\ \E i \in 1..config.particleCount :
          /\ Displacement(i) > 19900
          /\ Displacement(i) < 20000
          /\ velocities[i][1] < 0
          /\ velocities[i][1] > 0 - 50

\* The distance of particle i from the interaction point the next
\* integration will use.
MouseDistance(i) ==
    LET mp == MousePos(mouseWorld, matrixWorldY)
    IN  Norm(<<positions[i][1] - mp[1], positions[i][2] - mp[2],
               positions[i][3] - mp[3]>>)

RECURSIVE SumSeq(_, _)
SumSeq(seq, i) == IF i = 0 THEN 0 ELSE seq[i] + SumSeq(seq, i - 1)

\* C16: in an integration a particle at distance d from the interaction
\* point gets a velocity change from the mouse, and adds to the frame's
\* interaction energy, only when 0 < d < mouseRadius; at d = 0 or
\* d >= mouseRadius it gets none and adds nothing, nothing is divided by a
\* zero distance, and only forces above 0.1 are added to the energy, which
\* is their sum.
ForceGuard ==
    [][(FrameStep /\ ~isFrozen)
          => /\ ~frameNaN'
             /\ \A i \in 1..config.particleCount :
                   /\ (MouseDistance(i) = 0 \/ MouseDistance(i) >= config.mouseRadius)
                         => /\ framePush'[i] = <<0, 0, 0>>
                            /\ frameCounted'[i] = 0
                   /\ frameCounted'[i] # 0
                         => /\ frameCounted'[i] > audibleForce
                            /\ MouseDistance(i) > 0
                            /\ MouseDistance(i) < config.mouseRadius
             /\ frameEnergy' = SumSeq(frameCounted', config.particleCount)]_vars

\* The first frame ran with the interaction point exactly on the first
\* particle, which got nothing, while another particle was pushed and counted.
ForceGuardWitness ==
    /\ lastOp = "animate"
    /\ frames = 1
    /\ config = ConfigLiteral
    /\ mouseWorld = originalPositions[1]
    /\ framePush[1] = <<0, 0, 0>>
    /\ frameCounted[1] = 0
    /\ \E j \in 2..config.particleCount :
          frameCounted[j] > audibleForce /\ framePush[j] # <<0, 0, 0>>

====
